---- MODULE Spec2Model ----
(***************************************************************************)
(* IntSet (src/IntSet.cpp): a set of distinct ints kept in a dynamic array *)
(* in order of membership.  The model keeps the C++ memory picture: a heap *)
(* of arrays addressed by pointers, and IntSet objects holding the three   *)
(* members capacity, used and data (a pointer into the heap).  Every       *)
(* member function is an operator from a memory to a memory, translated    *)
(* statement by statement; the actions apply them to the objects A and B   *)
(* and to the temporaries R and R2 that receive the results of the set     *)
(* algebra.                                                                *)
(*                                                                         *)
(* Array cells are <<v>> once written and <<>> while uninitialised.        *)
(* C arrays are 0-based; cell i of the code is element i + 1 of the        *)
(* sequence that models the array.  Capacities and counts stay far below   *)
(* 2^31 within the bounds, so the int arithmetic of the code is exact and  *)
(* int(1.5 * capacity) + 1 is (3 * capacity) \div 2 + 1.                   *)
(***************************************************************************)
EXTENDS Integers, Sequences, FiniteSets, TLC

VARIABLES mem, last, hist, origin, past

vars == <<mem, last, hist, origin, past>>

\* ------------------------------------------------------------------ bounds
\* ints stored in the sets: MinVal .. MaxVal
MaxVal == 1
\* initial capacities handed to the constructor: -1 .. MaxInitCap
MaxInitCap == 2
\* capacities requested from resize when it is exercised alone: -1 .. MaxRequest
MaxRequest == 4

\* ints stored when two sets are in play: 0 .. MaxPairVal
MaxPairVal == 1

MinVal == 0 - 1
Values == MinVal .. MaxVal
PairValues == 0 .. MaxPairVal
InitCaps == MinVal .. MaxInitCap
Requests == MinVal .. MaxRequest

\* ------------------------------------------------------- program constants
DEFAULT_CAPACITY == 10
NULL == 0

\* the objects of the model: two named sets and two temporaries
Named == {"A", "B"}
Temps == {"R", "R2"}
Objs == Named \cup Temps

\* an object whose lifetime has not begun or has ended
NoObj == [capacity |-> 0, used |-> 0, data |-> NULL]

Alive(m, o) == m.obj[o].data # NULL

\* --------------------------------------------------------------- the heap
\* new int[n]: a fresh array of n uninitialised cells.  The code never
\* compares or orders addresses, so the allocator hands out the least
\* address that is not live.
RECURSIVE LeastFree(_, _)
LeastFree(h, a) == IF a \in DOMAIN h THEN LeastFree(h, a + 1) ELSE a

new(h, n) ==
    LET a == LeastFree(h, 1)
    IN  [heap |-> h @@ (a :> [i \in 1 .. n |-> <<>>]), addr |-> a]

\* delete[] p
delete(h, p) == [a \in DOMAIN h \ {p} |-> h[a]]

\* A value that is not an element of Values; it stands for what a read of a
\* dead, out-of-bounds or uninitialised cell yields.  NoUndefinedRead below
\* states that no such read is reachable.
Indeterminate == MaxVal + 100

\* p[i] as an rvalue
Load(h, p, i) ==
    IF p \in DOMAIN h /\ i + 1 \in 1 .. Len(h[p]) /\ h[p][i + 1] # <<>>
    THEN h[p][i + 1][1]
    ELSE Indeterminate

\* p[i] = v
Store(h, p, i, v) ==
    IF p \in DOMAIN h /\ i + 1 \in 1 .. Len(h[p])
    THEN [h EXCEPT ![p][i + 1] = <<v>>]
    ELSE h

\* for (i = from; i < n; i++) dst[i] = src[i];
RECURSIVE CopyLoop(_, _, _, _, _)
CopyLoop(h, dst, src, i, n) ==
    IF i < n
    THEN CopyLoop(Store(h, dst, i, Load(h, src, i)), dst, src, i + 1, n)
    ELSE h

\* ------------------------------------------------------- member functions
\* resize as it would be with the copy loop stopping one element short
resize_lossy(m, o, new_capacity) ==
    LET this == m.obj[o]
        cap  == IF new_capacity <= 0 THEN DEFAULT_CAPACITY
                ELSE IF new_capacity < this.used THEN this.used
                ELSE new_capacity
        al   == new(m.heap, cap)
        h1   == CopyLoop(al.heap, al.addr, this.data, 0, this.used - 1)
        h2   == delete(h1, this.data)
    IN  [heap |-> h2,
         obj  |-> [m.obj EXCEPT ![o] =
                     [capacity |-> cap, used |-> this.used, data |-> al.addr]]]

\* void IntSet::resize(int new_capacity)
ChosenCapacity(new_capacity, used) ==
    IF new_capacity <= 0 THEN DEFAULT_CAPACITY
    ELSE IF new_capacity < used THEN used
    ELSE new_capacity

resize(m, o, new_capacity) ==
    LET this == m.obj[o]
        cap  == ChosenCapacity(new_capacity, this.used)
        al   == new(m.heap, cap)
        h1   == CopyLoop(al.heap, al.addr, this.data, 0, this.used)
        h2   == delete(h1, this.data)
    IN  [heap |-> h2,
         obj  |-> [m.obj EXCEPT ![o] =
                     [capacity |-> cap, used |-> this.used, data |-> al.addr]]]

\* IntSet::IntSet(int initial_capacity)
IntSet(m, o, initial_capacity) ==
    LET cap == IF initial_capacity <= 0 THEN DEFAULT_CAPACITY
               ELSE initial_capacity
        al  == new(m.heap, cap)
    IN  [heap |-> al.heap,
         obj  |-> [m.obj EXCEPT ![o] =
                     [capacity |-> cap, used |-> 0, data |-> al.addr]]]

\* the copy constructor as it would be if it copied the pointer
IntSetCopy_shallow(m, o, src) ==
    [heap |-> m.heap,
     obj  |-> [m.obj EXCEPT ![o] =
                 [capacity |-> m.obj[src].capacity, used |-> m.obj[src].used,
                  data |-> m.obj[src].data]]]

\* IntSet::IntSet(const IntSet& src)
IntSetCopy(m, o, src) ==
    LET s  == m.obj[src]
        al == new(m.heap, s.capacity)
        h1 == CopyLoop(al.heap, al.addr, s.data, 0, s.used)
    IN  [heap |-> h1,
         obj  |-> [m.obj EXCEPT ![o] =
                     [capacity |-> s.capacity, used |-> s.used,
                      data |-> al.addr]]]

\* IntSet::~IntSet()
Destructor(m, o) ==
    [heap |-> delete(m.heap, m.obj[o].data),
     obj  |-> [m.obj EXCEPT ![o] = NoObj]]

\* IntSet& IntSet::operator=(const IntSet& rhs)
Assign(m, o, rhs) ==
    IF o = rhs THEN m
    ELSE
    LET r  == m.obj[rhs]
        al == new(m.heap, r.capacity)
        h1 == CopyLoop(al.heap, al.addr, r.data, 0, r.used)
        h2 == delete(h1, m.obj[o].data)
    IN  [heap |-> h2,
         obj  |-> [m.obj EXCEPT ![o] =
                     [capacity |-> r.capacity, used |-> r.used,
                      data |-> al.addr]]]

\* int IntSet::size() const
size(m, o) == m.obj[o].used

\* bool IntSet::isEmpty() const
isEmpty(m, o) == IF m.obj[o].used = 0 THEN TRUE ELSE FALSE

\* bool IntSet::contains(int anInt) const
RECURSIVE ContainsLoop(_, _, _, _, _)
ContainsLoop(h, p, i, n, anInt) ==
    IF i < n
    THEN IF anInt = Load(h, p, i) THEN TRUE
         ELSE ContainsLoop(h, p, i + 1, n, anInt)
    ELSE FALSE

contains(m, o, anInt) ==
    IF m.obj[o].used > 0
    THEN ContainsLoop(m.heap, m.obj[o].data, 0, m.obj[o].used, anInt)
    ELSE FALSE

\* bool IntSet::isSubsetOf(const IntSet& otherIntSet) const
RECURSIVE SubsetLoop(_, _, _, _)
SubsetLoop(m, o, other, i) ==
    IF i < m.obj[o].used
    THEN IF ~contains(m, other, Load(m.heap, m.obj[o].data, i)) THEN FALSE
         ELSE SubsetLoop(m, o, other, i + 1)
    ELSE TRUE

isSubsetOf(m, o, other) ==
    IF isEmpty(m, o) THEN TRUE ELSE SubsetLoop(m, o, other, 0)

\* void IntSet::DumpData(ostream& out) const: the values written, in order
DumpData(m, o) ==
    [i \in 1 .. m.obj[o].used |-> Load(m.heap, m.obj[o].data, i - 1)]

\* void IntSet::reset()
reset(m, o) == [m EXCEPT !.obj[o].used = 0]

\* add as it would be without the membership test
add_nocheck(m, o, anInt) ==
    LET m1 == IF m.obj[o].used >= m.obj[o].capacity
              THEN resize(m, o, ((3 * m.obj[o].capacity) \div 2) + 1)
              ELSE m
        h2 == Store(m1.heap, m1.obj[o].data, m1.obj[o].used, anInt)
    IN  [m   |-> [heap |-> h2, obj |-> [m1.obj EXCEPT ![o].used = @ + 1]],
         ret |-> TRUE]

\* bool IntSet::add(int anInt)
add(m, o, anInt) ==
    IF contains(m, o, anInt) = FALSE
    THEN LET m1 == IF m.obj[o].used >= m.obj[o].capacity
                   THEN resize(m, o, ((3 * m.obj[o].capacity) \div 2) + 1)
                   ELSE m
             h2 == Store(m1.heap, m1.obj[o].data, m1.obj[o].used, anInt)
         IN  [m   |-> [heap |-> h2,
                       obj  |-> [m1.obj EXCEPT ![o].used = @ + 1]],
              ret |-> TRUE]
    ELSE [m |-> m, ret |-> FALSE]

\* the shifting loop of remove as it would be if it moved nothing
ShiftLoop_none(h, p, j, n) == h

\* bool IntSet::remove(int anInt)
RECURSIVE ShiftLoop(_, _, _, _)
ShiftLoop(h, p, j, n) ==
    IF j < n - 1
    THEN ShiftLoop(Store(h, p, j, Load(h, p, j + 1)), p, j + 1, n)
    ELSE h

\* the search loop of remove as it would be if it filled the gap with the
\* last element instead of shifting
RECURSIVE RemoveLoop_swap(_, _, _, _)
RemoveLoop_swap(m, o, anInt, i) ==
    IF i < m.obj[o].used
    THEN IF Load(m.heap, m.obj[o].data, i) = anInt
         THEN [m   |-> [heap |-> Store(m.heap, m.obj[o].data, i,
                                       Load(m.heap, m.obj[o].data,
                                            m.obj[o].used - 1)),
                        obj  |-> [m.obj EXCEPT ![o].used = @ - 1]],
               ret |-> TRUE]
         ELSE RemoveLoop_swap(m, o, anInt, i + 1)
    ELSE [m |-> m, ret |-> FALSE]

RECURSIVE RemoveLoop(_, _, _, _)
RemoveLoop(m, o, anInt, i) ==
    IF i < m.obj[o].used
    THEN IF Load(m.heap, m.obj[o].data, i) = anInt
         THEN [m   |-> [heap |-> ShiftLoop(m.heap, m.obj[o].data, i,
                                           m.obj[o].used),
                        obj  |-> [m.obj EXCEPT ![o].used = @ - 1]],
               ret |-> TRUE]
         ELSE RemoveLoop(m, o, anInt, i + 1)
    ELSE [m |-> m, ret |-> FALSE]

remove(m, o, anInt) ==
    IF contains(m, o, anInt) THEN RemoveLoop(m, o, anInt, 0)
    ELSE [m |-> m, ret |-> FALSE]

\* IntSet IntSet::unionWith(const IntSet& otherIntSet) const
\* The local unionSet is built directly in the caller's object dst (the
\* returned local is the result object).
\* the loop of unionWith as it would be if it stopped one element short
RECURSIVE UnionLoop_short(_, _, _, _, _)
UnionLoop_short(m, dst, other, i, otherSize) ==
    IF i < otherSize - 1
    THEN LET v == Load(m.heap, m.obj[other].data, i)
         IN  IF contains(m, dst, v) = FALSE
             THEN UnionLoop_short(add(m, dst, v).m, dst, other, i + 1,
                                  otherSize)
             ELSE UnionLoop_short(m, dst, other, i + 1, otherSize)
    ELSE m

RECURSIVE UnionLoop(_, _, _, _, _)
UnionLoop(m, dst, other, i, otherSize) ==
    IF i < otherSize
    THEN LET v == Load(m.heap, m.obj[other].data, i)
         IN  IF contains(m, dst, v) = FALSE
             THEN UnionLoop(add(m, dst, v).m, dst, other, i + 1, otherSize)
             ELSE UnionLoop(m, dst, other, i + 1, otherSize)
    ELSE m

unionWith(m, o, other, dst) ==
    LET m1 == IntSetCopy(m, dst, o)
    IN  UnionLoop(m1, dst, other, 0, size(m1, other))

\* IntSet IntSet::intersect(const IntSet& otherIntSet) const
\* the loop of intersect as it would be if it walked the copy it is
\* removing from
RECURSIVE IntersectLoop_own(_, _, _, _, _)
IntersectLoop_own(m, o, dst, other, i) ==
    IF i < size(m, dst)
    THEN LET v == Load(m.heap, m.obj[dst].data, i)
         IN  IF contains(m, other, v) = FALSE
             THEN IntersectLoop_own(remove(m, dst, v).m, o, dst, other, i + 1)
             ELSE IntersectLoop_own(m, o, dst, other, i + 1)
    ELSE m

RECURSIVE IntersectLoop(_, _, _, _, _)
IntersectLoop(m, o, dst, other, i) ==
    IF i < size(m, o)
    THEN LET v == Load(m.heap, m.obj[o].data, i)
         IN  IF contains(m, other, v) = FALSE
             THEN IntersectLoop(remove(m, dst, v).m, o, dst, other, i + 1)
             ELSE IntersectLoop(m, o, dst, other, i + 1)
    ELSE m

intersect(m, o, other, dst) ==
    LET m1 == IntSetCopy(m, dst, o)
    IN  IntersectLoop(m1, o, dst, other, 0)

\* IntSet IntSet::subtract(const IntSet& otherIntSet) const
RECURSIVE SubtractLoop(_, _, _, _, _)
SubtractLoop(m, dst, other, i, otherSize) ==
    IF i < otherSize
    THEN LET v == Load(m.heap, m.obj[other].data, i)
         IN  IF contains(m, dst, v)
             THEN SubtractLoop(remove(m, dst, v).m, dst, other, i + 1,
                               otherSize)
             ELSE SubtractLoop(m, dst, other, i + 1, otherSize)
    ELSE m

\* subtract as it would be if it took the loop bound from the invoking set
subtract_ownsize(m, o, other, dst) ==
    LET m1 == IntSetCopy(m, dst, o)
    IN  SubtractLoop(m1, dst, other, 0, size(m1, o))

subtract(m, o, other, dst) ==
    LET m1 == IntSetCopy(m, dst, o)
    IN  SubtractLoop(m1, dst, other, 0, size(m1, other))

\* operator== as it would be if it compared the arrays cell by cell
Equals_ordered(m, is1, is2) ==
    IF size(m, is1) # size(m, is2) THEN FALSE
    ELSE \A i \in 0 .. size(m, is1) - 1 :
             Load(m.heap, m.obj[is1].data, i) = Load(m.heap, m.obj[is2].data, i)

\* bool operator==(const IntSet& is1, const IntSet& is2)
Equals(m, is1, is2) ==
    IF size(m, is1) # size(m, is2) THEN FALSE
    ELSE IF isSubsetOf(m, is1, is2) /\ isSubsetOf(m, is2, is1) THEN TRUE
    ELSE FALSE

\* ------------------------------------------------------------ the machine
\* last: the call that produced the current state and what it returned.
\* hist: per object, the values in the order of their most recent successful
\*       add (history kept beside the program, from the return values only).
\* past: when one set is followed alone, the values whose membership in it
\*       has ended at least once (by remove or reset).
\* origin: "copied" once the object took its value from another object by
\*         copy construction or assignment, "own" otherwise.
Call(op, self, other, ret) ==
    [op |-> op, self |-> self, other |-> other, ret |-> ret]

Without(s, v) == SelectSeq(s, LAMBDA x : x # v)

NoTemps == \A t \in Temps : ~Alive(mem, t)

Fresh == [heap |-> <<>>, obj |-> [o \in Objs |-> NoObj]]

\* IntSet A(c);
Init ==
    \E c \in InitCaps :
        /\ mem = IntSet(Fresh, "A", c)
        /\ last = Call("create", "A", "-", FALSE)
        /\ hist = [o \in Named |-> <<>>]
        /\ origin = [o \in Named |-> "own"]
        /\ past = {}

\* IntSet A(ca), B(cb);
InitPair ==
    \E ca \in InitCaps, cb \in InitCaps :
        /\ mem = IntSet(IntSet(Fresh, "A", ca), "B", cb)
        /\ last = Call("create", "B", "-", FALSE)
        /\ hist = [o \in Named |-> <<>>]
        /\ origin = [o \in Named |-> "own"]
        /\ past = {}

\* IntSet o(c);
Create(o, c) ==
    /\ NoTemps
    /\ ~Alive(mem, o)
    /\ mem' = IntSet(mem, o, c)
    /\ last' = Call("create", o, "-", FALSE)
    /\ hist' = [hist EXCEPT ![o] = <<>>]
    /\ origin' = [origin EXCEPT ![o] = "own"]

\* IntSet o(src);
CopyConstruct(o, src) ==
    /\ NoTemps
    /\ ~Alive(mem, o)
    /\ Alive(mem, src)
    /\ mem' = IntSetCopy(mem, o, src)
    /\ last' = Call("copy", o, src, FALSE)
    /\ hist' = [hist EXCEPT ![o] = hist[src]]
    /\ origin' = [origin EXCEPT ![o] = "copied"]

\* o = rhs;   (o and rhs may be the same object)
AssignFrom(o, rhs) ==
    /\ NoTemps
    /\ Alive(mem, o)
    /\ Alive(mem, rhs)
    /\ mem' = Assign(mem, o, rhs)
    /\ last' = Call("assign", o, rhs, FALSE)
    /\ hist' = [hist EXCEPT ![o] = hist[rhs]]
    /\ origin' = [origin EXCEPT ![o] = IF o = rhs THEN @ ELSE "copied"]

\* o.add(v);
Add(o, v) ==
    /\ NoTemps
    /\ Alive(mem, o)
    /\ LET r == add(mem, o, v)
       IN  /\ mem' = r.m
           /\ last' = Call("add", o, "-", r.ret)
           /\ hist' = [hist EXCEPT ![o] =
                         IF r.ret THEN Append(Without(@, v), v) ELSE @]
    /\ UNCHANGED origin

\* o.remove(v);
Remove(o, v) ==
    /\ NoTemps
    /\ Alive(mem, o)
    /\ LET r == remove(mem, o, v)
       IN  /\ mem' = r.m
           /\ last' = Call("remove", o, "-", r.ret)
           /\ hist' = [hist EXCEPT ![o] =
                         IF r.ret THEN Without(@, v) ELSE @]
    /\ UNCHANGED origin

\* o.reset();
Reset(o) ==
    /\ NoTemps
    /\ Alive(mem, o)
    /\ mem' = reset(mem, o)
    /\ last' = Call("reset", o, "-", FALSE)
    /\ hist' = [hist EXCEPT ![o] = <<>>]
    /\ UNCHANGED origin

\* IntSet R = o.unionWith(other);
UnionWith(o, other) ==
    /\ NoTemps
    /\ Alive(mem, o)
    /\ Alive(mem, other)
    /\ mem' = unionWith(mem, o, other, "R")
    /\ last' = Call("unionWith", o, other, FALSE)
    /\ UNCHANGED <<hist, origin>>

\* IntSet R = o.intersect(other);
Intersect(o, other) ==
    /\ NoTemps
    /\ Alive(mem, o)
    /\ Alive(mem, other)
    /\ mem' = intersect(mem, o, other, "R")
    /\ last' = Call("intersect", o, other, FALSE)
    /\ UNCHANGED <<hist, origin>>

\* IntSet R = o.subtract(other);
Subtract(o, other) ==
    /\ NoTemps
    /\ Alive(mem, o)
    /\ Alive(mem, other)
    /\ mem' = subtract(mem, o, other, "R")
    /\ last' = Call("subtract", o, other, FALSE)
    /\ UNCHANGED <<hist, origin>>

\* IntSet R = o.unionWith(other), R2 = other.unionWith(o);  R == R2;
CompareUnions(o, other) ==
    /\ NoTemps
    /\ Alive(mem, o)
    /\ Alive(mem, other)
    /\ LET m1 == unionWith(mem, o, other, "R")
           m2 == unionWith(m1, other, o, "R2")
       IN  /\ mem' = m2
           /\ last' = Call("compareUnions", o, other,
                           Equals(m2, "R", "R2"))
    /\ UNCHANGED <<hist, origin>>

\* the temporaries go out of scope (in reverse order of construction)
RECURSIVE DestroyAll(_, _)
DestroyAll(m, ts) ==
    IF ts = <<>> THEN m
    ELSE DestroyAll(IF Alive(m, Head(ts)) THEN Destructor(m, Head(ts)) ELSE m,
                    Tail(ts))

DropTemps ==
    /\ ~NoTemps
    /\ mem' = DestroyAll(mem, <<"R2", "R">>)
    /\ last' = Call("dropTemps", "-", "-", FALSE)
    /\ UNCHANGED <<hist, origin>>

\* o.resize(r): the private helper called on its own
Resize(o, r) ==
    /\ NoTemps
    /\ Alive(mem, o)
    /\ mem' = resize(mem, o, r)
    /\ last' = Call("resize", o, "-", FALSE)
    /\ UNCHANGED <<hist, origin>>

\* Life cycle of two sets: construction, copy, assignment and the mutators.
Next ==
    \/ \E o \in Named, c \in InitCaps : Create(o, c) /\ UNCHANGED past
    \/ \E o \in Named, src \in Named : CopyConstruct(o, src) /\ UNCHANGED past
    \/ \E o \in Named, rhs \in Named : AssignFrom(o, rhs) /\ UNCHANGED past
    \/ \E o \in Named, v \in PairValues : Add(o, v) /\ UNCHANGED past
    \/ \E o \in Named, v \in PairValues : Remove(o, v) /\ UNCHANGED past
    \/ \E o \in Named : Reset(o) /\ UNCHANGED past

Spec == Init /\ [][Next]_vars

\* One set and its mutators.
AddOne(v) == Add("A", v) /\ UNCHANGED past

RemoveOne(v) ==
    /\ Remove("A", v)
    /\ past' = IF last'.ret THEN past \cup {v} ELSE past

ResetOne ==
    /\ Reset("A")
    /\ past' = past \cup {hist["A"][i] : i \in 1 .. Len(hist["A"])}

NextOne ==
    \/ \E v \in Values : AddOne(v)
    \/ \E v \in Values : RemoveOne(v)
    \/ ResetOne

SpecOne == Init /\ [][NextOne]_vars

\* One set, its mutators and resize with any request.
NextResize ==
    \/ \E v \in Values : AddOne(v)
    \/ \E v \in Values : RemoveOne(v)
    \/ ResetOne
    \/ \E r \in Requests : Resize("A", r) /\ UNCHANGED past

SpecResize == Init /\ [][NextResize]_vars

\* Two sets, their mutators and the set algebra on them.
NextAlgebra ==
    \/ \E o \in Named, v \in PairValues : Add(o, v) /\ UNCHANGED past
    \/ \E o \in Named, v \in PairValues : Remove(o, v) /\ UNCHANGED past
    \/ \E o \in Named : Reset(o) /\ UNCHANGED past
    \/ \E o \in Named, other \in Named : UnionWith(o, other) /\ UNCHANGED past
    \/ \E o \in Named, other \in Named : Intersect(o, other) /\ UNCHANGED past
    \/ \E o \in Named, other \in Named : Subtract(o, other) /\ UNCHANGED past
    \/ \E o \in Named, other \in Named :
           CompareUnions(o, other) /\ UNCHANGED past
    \/ DropTemps /\ UNCHANGED past

SpecAlgebra == InitPair /\ [][NextAlgebra]_vars

\* ------------------------------------------------------------- properties
Elems(s) == {s[i] : i \in 1 .. Len(s)}

Distinct(s) == \A i, j \in 1 .. Len(s) : i # j => s[i] # s[j]

DeleteAt(s, i) == SubSeq(s, 1, i - 1) \o SubSeq(s, i + 1, Len(s))

Live == {o \in Objs : Alive(mem, o)}

\* The memory picture is sound: every live object owns one live array of
\* capacity cells, no array is shared or leaked, and the cells below used
\* are initialised - so no Load of the model ever yields Indeterminate.
NoUndefinedRead ==
    /\ \A o \in Live :
          /\ mem.obj[o].data \in DOMAIN mem.heap
          /\ Len(mem.heap[mem.obj[o].data]) = mem.obj[o].capacity
          /\ \A i \in 1 .. mem.obj[o].used :
                i <= mem.obj[o].capacity /\ mem.heap[mem.obj[o].data][i] # <<>>
    /\ \A o, p \in Live : o # p => mem.obj[o].data # mem.obj[p].data
    /\ DOMAIN mem.heap = {mem.obj[o].data : o \in Live}

\* C1: in every state reached from a freshly created set by add, remove,
\* reset, copy construction and assignment, each live set holds pairwise
\* distinct values in cells [0, used), 0 <= used <= capacity, capacity >= 1.
ThmC1 ==
    \A o \in Named :
        Alive(mem, o) =>
            /\ Distinct(DumpData(mem, o))
            /\ 0 <= mem.obj[o].used
            /\ mem.obj[o].used <= mem.obj[o].capacity
            /\ mem.obj[o].capacity >= 1

\* a set created with a non-positive capacity and a copy of it, both
\* mutated since, the last add on the copy having succeeded
WitC1 ==
    /\ origin["A"] = "own"
    /\ mem.obj["A"].capacity = DEFAULT_CAPACITY
    /\ mem.obj["A"].used = 1
    /\ origin["B"] = "copied"
    /\ Alive(mem, "B")
    /\ mem.obj["B"].used = 2
    /\ DumpData(mem, "B")[2] = DumpData(mem, "A")[1]
    /\ last.op = "add" /\ last.self = "B" /\ last.ret

\* C2: add(v) of a present v returns false and changes neither the elements
\* nor used; add(v) of an absent v returns true, appends v at the end and
\* raises used by one, growing the storage first when used = capacity.
ThmC2 ==
    [][\A v \in Values :
          AddOne(v) =>
              LET before == DumpData(mem, "A")
                  after == DumpData(mem', "A")
              IN  IF v \in Elems(before)
                  THEN /\ last'.ret = FALSE
                       /\ after = before
                       /\ mem'.obj["A"].used = mem.obj["A"].used
                  ELSE /\ last'.ret = TRUE
                       /\ after = Append(before, v)
                       /\ mem'.obj["A"].used = mem.obj["A"].used + 1
                       /\ mem'.obj["A"].used <= mem'.obj["A"].capacity
                       /\ (mem.obj["A"].used = mem.obj["A"].capacity
                             => mem'.obj["A"].capacity > mem.obj["A"].capacity)
                       /\ (mem.obj["A"].used < mem.obj["A"].capacity
                             => mem'.obj["A"].capacity = mem.obj["A"].capacity)
      ]_vars

\* a successful add has just put a third element into a set whose capacity,
\* 4, is only reached by growing (1 -> 2 -> 4 or 2 -> 4)
WitC2 ==
    /\ last.op = "add" /\ last.ret
    /\ mem.obj["A"].used = 3
    /\ mem.obj["A"].capacity = 4
    /\ Len(DumpData(mem, "A")) = 3

\* C3: remove(v) of an absent v returns false and changes nothing (elements,
\* used, capacity); remove(v) of the v at position i returns true, lowers
\* used by one and deletes position i, the rest keeping their order.
ThmC3 ==
    [][\A v \in Values :
          RemoveOne(v) =>
              LET before == DumpData(mem, "A")
                  after == DumpData(mem', "A")
              IN  IF v \notin Elems(before)
                  THEN /\ last'.ret = FALSE
                       /\ after = before
                       /\ mem'.obj["A"] = mem.obj["A"]
                  ELSE /\ last'.ret = TRUE
                       /\ mem'.obj["A"].used = mem.obj["A"].used - 1
                       /\ mem'.obj["A"].capacity = mem.obj["A"].capacity
                       /\ \E i \in 1 .. Len(before) :
                             before[i] = v /\ after = DeleteAt(before, i)
      ]_vars

\* a successful remove has just closed a gap: two elements are left and the
\* cell after them still holds a copy of the last one, shifted down
WitC3 ==
    /\ last.op = "remove" /\ last.ret
    /\ mem.obj["A"].used = 2
    /\ mem.obj["A"].capacity > 2
    /\ mem.heap[mem.obj["A"].data][3] = <<DumpData(mem, "A")[2]>>

\* C4: after any sequence of add, remove and reset on a set created empty,
\* the dump order of the present values is the order of their most recent
\* successful adds.
ThmC4 == DumpData(mem, "A") = hist["A"]

\* a value whose earlier membership had ended has just been added again and
\* sits last, behind a value that was present all along
WitC4 ==
    /\ last.op = "add" /\ last.ret
    /\ Len(DumpData(mem, "A")) >= 2
    /\ DumpData(mem, "A")[Len(DumpData(mem, "A"))] \in past
    /\ DumpData(mem, "A")[1] \notin past

\* what a set-algebra call must leave alone: both operands keep their
\* members, their pointer and every cell of their array
OperandsUnchanged(o, p) ==
    /\ mem'.obj[o] = mem.obj[o]
    /\ mem'.obj[p] = mem.obj[p]
    /\ mem'.heap[mem.obj[o].data] = mem.heap[mem.obj[o].data]
    /\ mem'.heap[mem.obj[p].data] = mem.heap[mem.obj[p].data]
    /\ mem'.obj["R"].data \notin {NULL, mem.obj[o].data, mem.obj[p].data}

\* C5: A.unionWith(B), B possibly A itself, returns a new set holding A's
\* sequence followed by the elements of B that A lacks, in B's order;
\* A and B are unchanged.
ThmC5 ==
    [][\A o \in Named, p \in Named :
          UnionWith(o, p) =>
              /\ DumpData(mem', "R") =
                     DumpData(mem, o) \o
                     SelectSeq(DumpData(mem, p),
                               LAMBDA x : x \notin Elems(DumpData(mem, o)))
              /\ OperandsUnchanged(o, p)
      ]_vars

\* A.unionWith(B) has just returned, B sharing one element with A and
\* bringing one that A lacks
WitC5 ==
    /\ last.op = "unionWith" /\ last.self = "A" /\ last.other = "B"
    /\ Len(DumpData(mem, "A")) = 1
    /\ Len(DumpData(mem, "B")) = 2
    /\ DumpData(mem, "B")[2] = DumpData(mem, "A")[1]
    /\ DumpData(mem, "R") = <<DumpData(mem, "B")[2], DumpData(mem, "B")[1]>>

\* C6: A.intersect(B) returns a new set holding exactly the subsequence of
\* A's sequence made of the elements B contains; A and B are unchanged.
ThmC6 ==
    [][\A o \in Named, p \in Named :
          Intersect(o, p) =>
              /\ DumpData(mem', "R") =
                     SelectSeq(DumpData(mem, o),
                               LAMBDA x : x \in Elems(DumpData(mem, p)))
              /\ OperandsUnchanged(o, p)
      ]_vars

\* A.intersect(B) has just returned, having dropped the first of A's two
\* elements and kept the second
WitC6 ==
    /\ last.op = "intersect" /\ last.self = "A" /\ last.other = "B"
    /\ Len(DumpData(mem, "A")) = 2
    /\ DumpData(mem, "B") = <<DumpData(mem, "A")[2]>>
    /\ DumpData(mem, "R") = DumpData(mem, "B")

\* C7: A.subtract(B) returns a new set holding exactly the subsequence of
\* A's sequence made of the elements B lacks, so A.subtract(B).intersect(B)
\* and A.subtract(A) are empty; A and B are unchanged.
ThmC7 ==
    [][\A o \in Named, p \in Named :
          Subtract(o, p) =>
              /\ DumpData(mem', "R") =
                     SelectSeq(DumpData(mem, o),
                               LAMBDA x : x \notin Elems(DumpData(mem, p)))
              /\ OperandsUnchanged(o, p)
              /\ isEmpty(intersect(mem', "R", p, "R2"), "R2")
              /\ (o = p => isEmpty(mem', "R"))
      ]_vars

\* A.subtract(B) has just returned, having dropped the first of A's two
\* elements, the only element of B, and kept the second
WitC7 ==
    /\ last.op = "subtract" /\ last.self = "A" /\ last.other = "B"
    /\ Len(DumpData(mem, "A")) = 2
    /\ DumpData(mem, "B") = <<DumpData(mem, "A")[1]>>
    /\ DumpData(mem, "R") = <<DumpData(mem, "A")[2]>>

\* C8: for all reachable A and B, A.unionWith(B) == B.unionWith(A) is true
\* under operator==.
ThmC8 == last.op = "compareUnions" => last.ret = TRUE

\* the two unions have just been compared and differ in order and capacity
WitC8 ==
    /\ last.op = "compareUnions" /\ last.self = "A" /\ last.other = "B"
    /\ last.ret = TRUE
    /\ Len(DumpData(mem, "R")) = 2
    /\ DumpData(mem, "R") # DumpData(mem, "R2")
    /\ mem.obj["R"].capacity # mem.obj["R2"].capacity

\* C9: a set produced from another by copy construction or by assignment
\* has the source's elements and count in storage of its own: a later add,
\* remove or reset on either set leaves the other unchanged.
ThmC9 ==
    [][/\ \A o \in Named : \A src \in Named \ {o} :
             (CopyConstruct(o, src) \/ AssignFrom(o, src)) =>
                 /\ DumpData(mem', o) = DumpData(mem, src)
                 /\ mem'.obj[o].used = mem.obj[src].used
                 /\ mem'.obj[o].data # mem'.obj[src].data
                 /\ mem'.obj[src] = mem.obj[src]
                 /\ mem'.heap[mem.obj[src].data] = mem.heap[mem.obj[src].data]
       /\ \A o \in Named : \A p \in Named \ {o} :
             (/\ Alive(mem, p)
              /\ \/ \E v \in PairValues : Add(o, v) \/ Remove(o, v)
                 \/ Reset(o)) =>
                 /\ mem'.obj[p] = mem.obj[p]
                 /\ mem.obj[o].data # mem.obj[p].data
                 /\ mem'.obj[o].data # mem.obj[p].data
                 /\ mem'.heap[mem.obj[p].data] = mem.heap[mem.obj[p].data]
                 /\ DumpData(mem', p) = DumpData(mem, p)
      ]_vars

\* B took its value from A and a later add on B has succeeded: B holds A's
\* elements and the new one, A only its own
WitC9 ==
    /\ origin["B"] = "copied" /\ origin["A"] = "own"
    /\ last.op = "add" /\ last.self = "B" /\ last.ret
    /\ Len(DumpData(mem, "A")) = 1
    /\ Len(DumpData(mem, "B")) = 2
    /\ DumpData(mem, "B")[1] = DumpData(mem, "A")[1]
    /\ ~contains(mem, "A", DumpData(mem, "B")[2])

\* C10: resize(r) sets capacity to r when r >= used and r > 0, to exactly
\* used when r < used and used > 0 (every non-positive r included), and to
\* the default capacity only when used = 0 and r is non-positive; capacity
\* >= used afterwards, and the elements, their order and used are unchanged.
ClaimedCapacity(r, used) ==
    IF r >= used /\ r > 0 THEN r
    ELSE IF used > 0 THEN used
    ELSE DEFAULT_CAPACITY

CexC10 ==
    [][\A r \in Requests :
          Resize("A", r) =>
              /\ mem'.obj["A"].capacity =
                     ClaimedCapacity(r, mem.obj["A"].used)
              /\ mem'.obj["A"].capacity >= mem'.obj["A"].used
              /\ mem'.obj["A"].used = mem.obj["A"].used
              /\ DumpData(mem', "A") = DumpData(mem, "A")
      ]_vars

====
